---- MODULE Spec2Model ----
(***************************************************************************)
(* Haptic lathe trainer: the bridge process (integrated_lathe_controller)  *)
(* and the embedded motor controller (pico_upload/main.py and              *)
(* pico_upload/motor_control.py).                                          *)
(*                                                                         *)
(* Bridge time is the value of time.time() at the top of a loop iteration, *)
(* observed at a resolution of one second.  The loop never uses a          *)
(* timestamp except in a difference against the current time, so every     *)
(* timestamp is kept as its age (current_time - timestamp), saturated just *)
(* above the largest threshold it is compared with.                        *)
(***************************************************************************)
EXTENDS Integers, Sequences, FiniteSets, TLC

VARIABLES
    \* ---- bridge: LatheController fields
    emergency_stop,          \* self.emergency_stop
    client_socket,           \* self.client_socket: 0 is None, otherwise a client id
    pico_serial,             \* self.pico_serial is open (TRUE) or None (FALSE)
    bridge_target_velocity,  \* self.target_velocity
    handle_wheel_position,   \* self.handle_wheel_position
    \* ---- bridge: locals of run_control_loop
    bpc,                     \* "gui", "pico", "timers", "shutdown", "done"
    gui_connected,
    consecutive_errors,
    guiAge,                  \* current_time - last_gui_heartbeat
    hbAge,                   \* current_time - last_heartbeat_check
    pollAge,                 \* current_time - last_pico_status_req
    safetyAge,               \* current_time - last_safety_check
    statusAge,               \* current_time - last_status_time
    \* ---- bridge: observation of the run
    link,                    \* writes to the controller link in this iteration, with
                             \* "LATCH" marking the point the flag went false -> true
    stopsSinceLatch,         \* `stop` lines written since the latch event
    errRun,                  \* process_gui_command failures in a row
    everConnected,           \* a GUI client has been accepted
    quietAge,                \* time since the last byte from the GUI (or the accept)
    appliedCmd,              \* the command handed to process_gui_command in this
                             \* iteration, NoCmd when none was
    backlog,                 \* the connection waiting in the queue of the listening
                             \* socket: 0 is none, otherwise a client id
    \* ---- embedded controller
    motor,                   \* the MotorController object: one field per attribute
    entry,                   \* the program run on the Pico: "main" (main.py) or
                             \* "cli" (motor_control.main)
    ppc,                     \* "read" (command intake), "blocked" (inside readline,
                             \* waiting for the newline), "step" (control step), "exit"
    lastCmd,                 \* the command of the last line received
    wasEngaged,              \* motor.wall_engaged when that line arrived
    reply,                   \* what the last line was answered with
    idle,                    \* a control step has run since the last line received
    pidSteps,                \* position_control calls so far
    nLines,                  \* lines received so far
    reported,                \* the position in the reply to the last line, in 1/100
                             \* degree (0 when the reply carries none)
    zeroed,                  \* a zero command was handled and no encoder edge
                             \* has arrived since
    \* ---- embedded controller: MotorController driven method by method
    called,                  \* the method of the last call (interrupts apart)
    nCalls,                  \* method calls so far (interrupts apart)
    \* ---- embedded controller: a method interrupted by the encoder handler
    ipc,                     \* how far the running method has come: "idle" (none
                             \* running), "vel_read" (get_velocity_rpm has read the
                             \* count), "zero_stored" (zero_position has stored 0)
    current_count,           \* the count the last read returned
    edges                    \* net edges the handler has counted since the count
                             \* was last set to 0

bridgeVars == << emergency_stop, client_socket, pico_serial, bridge_target_velocity,
                 handle_wheel_position, bpc, gui_connected, consecutive_errors,
                 guiAge, hbAge, pollAge, safetyAge, statusAge, link,
                 stopsSinceLatch, errRun, everConnected, quietAge, appliedCmd,
                 backlog >>

picoVars == << motor, entry, ppc, lastCmd, wasEngaged, reply, idle, pidSteps,
              nLines, reported, zeroed >>

callVars == << called, nCalls, ipc, current_count, edges >>

vars == << bridgeVars, picoVars, callVars >>

----------------------------------------------------------------------------
(* Bounds of the model *)

\* lines delivered by one socket read
MaxBatch == 2
\* seconds that may pass between two readings of time.time()
MaxDelta == 1

(* Program constants *)

heartbeat_timeout == 5
heartbeat_check_interval == 1
max_consecutive_errors == 10
max_velocity == 100

Min(a, b) == IF a < b THEN a ELSE b
Max(a, b) == IF a > b THEN a ELSE b

----------------------------------------------------------------------------
(* GUI lines.  Each names one concrete line of text:                       *)
(*   "estop"     {"type":"emergency_stop"}                                 *)
(*   "fwd"       {"type":"motor_control","action":"forward"}               *)
(*   "pos"       {"type":"motor_control","action":"position","delta":10}   *)
(*   "speed_bad" {"type":"motor_control","action":"speed","value":"abc"}   *)
(*   "FORCE_ok"  FORCE:12.0,0.0,10.0                                       *)
(*   "junk"      a line that is neither FORCE: nor JSON                    *)
(*   "empty_obj" {}                                                        *)
(*   "null"      null                                                      *)

\* the lines a read is made of here: "pos" writes to the link as "fwd" does
\* and "empty_obj" is falsy as "null" is
Lines == {"estop", "fwd", "speed_bad", "FORCE_ok", "junk", "null"}

Batches == UNION { [1..n -> Lines] : n \in 1..MaxBatch }

NoCmd == "None"

Skip == "skip"

\* the value the line assigns to last_valid_cmd, or Skip when it assigns none
\* (json.loads raises); json.loads("null") is None
ParseLine(l) ==
    CASE l = "estop"     -> "emergency_stop"
      [] l = "fwd"       -> "motor_forward"
      [] l = "pos"       -> "motor_position"
      [] l = "speed_bad" -> "motor_speed_bad"
      [] l = "FORCE_ok"  -> "haptic_vector"
      [] l = "empty_obj" -> "{}"
      [] l = "null"      -> NoCmd
      [] OTHER           -> Skip

\* the for loop of read_gui_commands: the last line that parsed
RECURSIVE LastValidCmd(_, _)
LastValidCmd(batch, last) ==
    IF batch = << >> THEN last
    ELSE LET c == ParseLine(Head(batch))
         IN  LastValidCmd(Tail(batch), IF c = Skip THEN last ELSE c)

\* `if gui_command:` an empty dict is falsy
Truthy(cmd) == cmd # NoCmd /\ cmd # "{}"

----------------------------------------------------------------------------
(* Bridge: ages of the timestamps of run_control_loop *)

GuiAgeCap == heartbeat_timeout + 1
HbAgeCap == heartbeat_check_interval + 1
ErrRunCap == max_consecutive_errors + 1

Aged(age, d, cap) == Min(age + d, cap)

\* send_to_pico: written to the serial link when it is open; the local
\* controller (self.motor_controller) is never created, see BridgeInit
SendToPico(log, command) == IF pico_serial THEN Append(log, command) ELSE log

StopsIn(log) == Cardinality({i \in DOMAIN log : log[i] = "stop"})

DriveCommands == {"vel", "pos", "spring_wall"}

\* the loop test with the flag ignored
LoopConditionAlways(es) == TRUE

\* `while not self.emergency_stop`
LoopCondition(es) == ~es

\* the emergency branch commanding a velocity instead of a stop
EmergencyCommandVel == "vel"

\* the command written by the emergency_stop branch of process_gui_command
EmergencyCommand == "stop"

\* process_gui_command raises inside its own try (float("abc")) and the
\* except clause swallows it
ProcessFails(cmd) == cmd = "motor_speed_bad"

\* process_gui_command sets the emergency flag
ProcessLatches(cmd) == cmd = "emergency_stop"

\* what process_gui_command writes to the controller link
ProcessWrites(log, cmd) ==
    CASE cmd = "emergency_stop" -> SendToPico(log, EmergencyCommand)
      [] cmd = "motor_forward"  -> SendToPico(log, "vel")
      [] cmd = "motor_position" -> SendToPico(log, "pos")
      [] cmd = "haptic_vector"  -> SendToPico(log, "spring_wall")
      [] OTHER                  -> log

\* current_time = time.time() at the top of the iteration
LoopTop(d) ==
    /\ bpc = "gui"
    /\ hbAge' = Aged(hbAge, d, HbAgeCap)
    /\ pollAge' = Aged(pollAge, d, 1)
    /\ safetyAge' = Aged(safetyAge, d, 1)
    /\ statusAge' = Aged(statusAge, d, 1)
    /\ bpc' = "pico"

BridgeInit ==
    /\ emergency_stop = FALSE
    /\ client_socket = 0
    /\ pico_serial \in BOOLEAN
    /\ bridge_target_velocity = 50
    /\ handle_wheel_position = 0
    /\ bpc = "gui"
    /\ gui_connected = FALSE
    /\ consecutive_errors = 0
    /\ guiAge = 0
    /\ hbAge = HbAgeCap
    /\ pollAge = 1
    /\ safetyAge = 1
    /\ statusAge = 1
    /\ link = << >>
    /\ stopsSinceLatch = 0
    /\ errRun = 0
    /\ everConnected = FALSE
    /\ quietAge = 0
    /\ appliedCmd = NoCmd
    /\ backlog = 0

\* the GUI clients that may connect
ClientIds == {1, 2}

\* a GUI process connects to the listening socket (listen(1)): the connection
\* waits in the queue until the bridge calls accept
ClientConnects(id) ==
    /\ bpc # "done"
    /\ backlog = 0
    /\ id # client_socket
    /\ backlog' = id
    /\ UNCHANGED << emergency_stop, client_socket, pico_serial,
                    bridge_target_velocity, handle_wheel_position, bpc,
                    gui_connected, consecutive_errors, guiAge, hbAge, pollAge,
                    safetyAge, statusAge, link, stopsSinceLatch, errRun,
                    everConnected, quietAge, appliedCmd, picoVars, callVars >>

\* step 1 with no client: read_gui_commands calls accept_gui_connection
GuiAccept(d, incoming) ==
    /\ LoopTop(d)
    /\ client_socket = 0
    /\ incoming = (backlog # 0)
    /\ client_socket' = IF incoming THEN backlog ELSE 0
    /\ backlog' = 0
    /\ everConnected' = (everConnected \/ incoming)
    /\ quietAge' = IF incoming THEN 0 ELSE Aged(quietAge, d, GuiAgeCap)
    /\ guiAge' = Aged(guiAge, d, GuiAgeCap)
    /\ link' = << >>
    /\ appliedCmd' = NoCmd
    /\ UNCHANGED << emergency_stop, pico_serial, bridge_target_velocity,
                    handle_wheel_position, gui_connected, consecutive_errors,
                    stopsSinceLatch, errRun,
                    picoVars, callVars >>

\* step 1, select says the client socket has nothing to read
GuiIdle(d) ==
    /\ LoopTop(d)
    /\ client_socket # 0
    /\ quietAge' = Aged(quietAge, d, GuiAgeCap)
    /\ guiAge' = Aged(guiAge, d, GuiAgeCap)
    /\ link' = << >>
    /\ appliedCmd' = NoCmd
    /\ UNCHANGED << emergency_stop, client_socket, pico_serial,
                    bridge_target_velocity, handle_wheel_position, gui_connected,
                    consecutive_errors, stopsSinceLatch, errRun, everConnected,
                    backlog, picoVars, callVars >>

\* step 1, recv returns no data (the client closed) or raises
GuiLost(d) ==
    /\ LoopTop(d)
    /\ client_socket # 0
    /\ client_socket' = 0
    /\ quietAge' = Aged(quietAge, d, GuiAgeCap)
    /\ guiAge' = Aged(guiAge, d, GuiAgeCap)
    /\ link' = << >>
    /\ appliedCmd' = NoCmd
    /\ UNCHANGED << emergency_stop, pico_serial, bridge_target_velocity,
                    handle_wheel_position, gui_connected, consecutive_errors,
                    stopsSinceLatch, errRun, everConnected,
                    backlog, picoVars, callVars >>

\* step 1, recv returns the lines of `batch`
GuiRecv(d, batch) ==
    \E cmd \in {LastValidCmd(batch, NoCmd)} :
    LET applied == Truthy(cmd)
        latch == applied /\ ProcessLatches(cmd) /\ ~emergency_stop
        log0 == IF latch THEN << "LATCH" >> ELSE << >>
        log1 == IF applied THEN ProcessWrites(log0, cmd) ELSE log0
    IN  /\ LoopTop(d)
        /\ client_socket # 0
        /\ quietAge' = 0
        /\ emergency_stop' = (emergency_stop \/ (applied /\ ProcessLatches(cmd)))
        /\ link' = log1
        /\ stopsSinceLatch' =
              IF latch THEN StopsIn(log1)
              ELSE IF emergency_stop THEN Min(stopsSinceLatch + StopsIn(log1), 3)
              ELSE stopsSinceLatch
        /\ errRun' = IF ~applied THEN errRun
                     ELSE IF ProcessFails(cmd) THEN Min(errRun + 1, ErrRunCap)
                     ELSE 0
        /\ guiAge' = IF applied THEN 0 ELSE Aged(guiAge, d, GuiAgeCap)
        /\ gui_connected' = (gui_connected \/ applied)
        /\ consecutive_errors' = IF applied THEN 0 ELSE consecutive_errors
        /\ appliedCmd' = IF applied THEN cmd ELSE NoCmd
        /\ UNCHANGED << client_socket, pico_serial, bridge_target_velocity,
                        handle_wheel_position, everConnected,
                    backlog, picoVars, callVars >>

\* update_status keeping the client after a failed send
UpdateStatusKeeps(client, sendFails) == client

\* update_status: sendall to the client; a failure drops the client
UpdateStatus(client, sendFails) == IF client # 0 /\ sendFails THEN 0 ELSE client

\* step 2, read_pico_response returns False: nothing waiting, a line without
\* "Position:", or the position already cached
PicoQuiet ==
    /\ bpc = "pico"
    /\ bpc' = "timers"
    /\ UNCHANGED << emergency_stop, client_socket, pico_serial,
                    bridge_target_velocity, handle_wheel_position, gui_connected,
                    consecutive_errors, guiAge, hbAge, pollAge, safetyAge,
                    statusAge, link, stopsSinceLatch, errRun, everConnected,
                    quietAge,
                    appliedCmd, backlog, picoVars, callVars >>

\* step 2, a status line with a new position: cache it and push at once
PicoUpdate(p, sendFails) ==
    /\ bpc = "pico"
    /\ pico_serial
    /\ p # handle_wheel_position
    /\ handle_wheel_position' = p
    /\ client_socket' = UpdateStatus(client_socket, sendFails)
    /\ statusAge' = 0
    /\ bpc' = "timers"
    /\ UNCHANGED << emergency_stop, pico_serial, bridge_target_velocity,
                    gui_connected, consecutive_errors, guiAge, hbAge, pollAge,
                    safetyAge, link, stopsSinceLatch, errRun, everConnected,
                    quietAge,
                    appliedCmd, backlog, picoVars, callVars >>

\* self.motor_controller: None in __init__, and the run_control_loop that
\* would create it is replaced by the later definition of the same name
motor_controller == FALSE

\* the drive velocities (RPM) a safety check may meet
Velocities == {0, 120}

\* perform_safety_checks: the velocity limit is tested on the local
\* controller only
perform_safety_checks(log, velocity) ==
    IF motor_controller /\ Max(velocity, -velocity) > max_velocity
    THEN SendToPico(log, "stop")
    ELSE log

\* steps 3 to 7 and the loop test; velocity is the speed of the drive at
\* the time of the safety check
Timers(sendFails, velocity) ==
    LET pollDue == pollAge > 0
        safetyDue == safetyAge > 0
        hbDue == hbAge > heartbeat_check_interval
        timeout == hbDue /\ gui_connected /\ guiAge > heartbeat_timeout
        statusDue == statusAge > 0
        latch == timeout /\ ~emergency_stop
        log1 == IF pollDue THEN SendToPico(link, "status") ELSE link
        logS == IF safetyDue THEN perform_safety_checks(log1, velocity) ELSE log1
        log2 == IF latch THEN Append(logS, "LATCH") ELSE logS
        log3 == IF timeout THEN SendToPico(log2, "stop") ELSE log2
        newStops == IF timeout /\ pico_serial THEN 1 ELSE 0
    IN  /\ bpc = "timers"
        /\ pollAge' = IF pollDue THEN 0 ELSE pollAge
        /\ safetyAge' = IF safetyDue THEN 0 ELSE safetyAge
        /\ hbAge' = IF hbDue THEN 0 ELSE hbAge
        /\ emergency_stop' = (emergency_stop \/ timeout)
        /\ link' = log3
        /\ stopsSinceLatch' =
              IF latch THEN newStops
              ELSE IF emergency_stop THEN Min(stopsSinceLatch + newStops, 3)
              ELSE stopsSinceLatch
        /\ client_socket' = IF statusDue THEN UpdateStatus(client_socket, sendFails)
                            ELSE client_socket
        /\ statusAge' = IF statusDue THEN 0 ELSE statusAge
        /\ bpc' = IF LoopCondition(emergency_stop') THEN "gui" ELSE "shutdown"
        /\ UNCHANGED << pico_serial, bridge_target_velocity, handle_wheel_position,
                        gui_connected, consecutive_errors, guiAge, errRun,
                        everConnected, quietAge,
                    appliedCmd, backlog, picoVars, callVars >>

\* KeyboardInterrupt between two iterations: main's finally runs shutdown
Interrupt ==
    /\ bpc = "gui"
    /\ bpc' = "shutdown"
    /\ UNCHANGED << emergency_stop, client_socket, pico_serial,
                    bridge_target_velocity, handle_wheel_position, gui_connected,
                    consecutive_errors, guiAge, hbAge, pollAge, safetyAge,
                    statusAge, link, stopsSinceLatch, errRun, everConnected,
                    quietAge,
                    appliedCmd, backlog, picoVars, callVars >>

\* shutdown(): one more stop when the link is open
Shutdown ==
    /\ bpc = "shutdown"
    /\ bpc' = "done"
    /\ link' = SendToPico(<< >>, "stop")
    /\ stopsSinceLatch' = IF emergency_stop
                          THEN Min(stopsSinceLatch + StopsIn(link'), 3)
                          ELSE stopsSinceLatch
    /\ UNCHANGED << emergency_stop, client_socket, pico_serial,
                    bridge_target_velocity, handle_wheel_position, gui_connected,
                    consecutive_errors, guiAge, hbAge, pollAge, safetyAge,
                    statusAge, errRun, everConnected, quietAge,
                    appliedCmd, backlog, picoVars, callVars >>

Positions == {0, 10}

BridgeNext ==
    \/ \E id \in ClientIds : ClientConnects(id)
    \/ \E d \in 0..MaxDelta, incoming \in BOOLEAN : GuiAccept(d, incoming)
    \/ \E d \in 0..MaxDelta : GuiIdle(d)
    \/ \E d \in 0..MaxDelta : GuiLost(d)
    \/ \E d \in 0..MaxDelta, batch \in Batches : GuiRecv(d, batch)
    \/ PicoQuiet
    \/ \E p \in Positions, sendFails \in BOOLEAN : PicoUpdate(p, sendFails)
    \/ \E sendFails \in BOOLEAN, v \in Velocities : Timers(sendFails, v)
    \/ Interrupt
    \/ Shutdown


----------------------------------------------------------------------------
(* Embedded controller: MotorController (pico_upload/motor_control.py).    *)
(*                                                                         *)
(* Floats are kept as exact scaled integers:                               *)
(*   angles            in 1/16 degree (one encoder count is 3/16 degree)   *)
(*   velocities        in 1/32000 RPM                                      *)
(*   integral_error    in 1/1600 degree-second                             *)
(*   kp, ki, kd        in 1/20                                             *)
(*   brake level       in 1/1000                                           *)
(*   forces            in 1/100 N                                          *)
(* Square roots are taken to 1/1000 and rounded down.  Clock readings      *)
(* (ticks_us, ticks_ms) are inputs of the operation that reads them.       *)

CPR == 64
gear_ratio == 30
counts_per_output_rev == CPR * gear_ratio

\* angle units per degree, angle units per encoder count, velocity units per RPM
PosUnit == counts_per_output_rev \div 120
CountUnits == (360 * PosUnit) \div counts_per_output_rev
VelUnit == 2000 * PosUnit

max_pwm == 65535
min_pwm == 1000
\* self.max_brake_scale = 0.6, in 1/1000
max_brake_scale == 600

Abs(x) == IF x < 0 THEN -x ELSE x
Sign(x) == IF x > 0 THEN 1 ELSE IF x < 0 THEN -1 ELSE 0
Clamp(lo, x, hi) == Max(lo, Min(hi, x))

RECURSIVE IsqrtBetween(_, _, _)
IsqrtBetween(n, lo, hi) ==
    IF lo >= hi THEN lo
    ELSE LET mid == (lo + hi + 1) \div 2
         IN  IF mid * mid <= n THEN IsqrtBetween(n, mid, hi)
             ELSE IsqrtBetween(n, lo, mid - 1)

\* floor of the square root, for 0 <= n < 2^30
Isqrt(n) == IsqrtBetween(n, 0, 32767)

\* __init__
MotorInit ==
    [ encoder_count |-> 0,
      last_a_state |-> 1,
      last_b_state |-> 1,
      last_count |-> 0,
      current_velocity |-> 0,
      last_motion_sign |-> 0,
      target_position |-> 0,
      target_velocity |-> 0,
      control_mode |-> "velocity",
      kp |-> 40,
      ki |-> 2,
      kd |-> 1,
      integral_error |-> 0,
      last_position_error |-> 0,
      wall_engaged |-> FALSE,
      wall_contact_position_deg |-> 0,
      wall_direction |-> 1,
      wall_force_newtons |-> 0,
      haptic_brake_percent |-> 0,
      duty |-> 0,
      in1 |-> 0,
      in2 |-> 0 ]

\* encoder_callback counting an edge of either channel
encoder_callback_any_edge(m, a_state, b_state) ==
    [ m EXCEPT
        !.encoder_count =
            IF a_state # m.last_a_state \/ b_state # m.last_b_state
            THEN (IF a_state = b_state THEN @ + 1 ELSE @ - 1)
            ELSE @,
        !.last_a_state = a_state,
        !.last_b_state = b_state ]

\* encoder_callback: the levels read from the two pins
encoder_callback(m, a_state, b_state) ==
    [ m EXCEPT
        !.encoder_count =
            IF a_state # m.last_a_state
            THEN (IF a_state = b_state THEN @ + 1 ELSE @ - 1)
            ELSE @,
        !.last_a_state = a_state,
        !.last_b_state = b_state ]

get_position_degrees(m) == m.encoder_count * CountUnits

\* get_velocity_rpm, dt_ms after the last recomputation; the value returned
\* is the current_velocity of the result. The code takes the revolutions of
\* the window as revolutions per second: dt decides whether to recompute and
\* is not divided by
get_velocity_rpm(m, dt_ms) ==
    IF dt_ms > 10
    THEN LET count_diff == m.encoder_count - m.last_count
         IN  [ m EXCEPT
                 !.current_velocity =
                     (count_diff * 60 * VelUnit) \div counts_per_output_rev,
                 !.last_motion_sign = IF count_diff # 0 THEN Sign(count_diff) ELSE @,
                 !.last_count = m.encoder_count ]
    ELSE m

\* the duty _apply_haptic_brake writes: sqrt(brake/0.03), at most 1.0
BrakeDuty(brake_percent) ==
    LET duty_float == Min(Isqrt((Min(brake_percent, 1000) * 100000) \div 3), 1000)
    IN  (duty_float * (max_pwm - min_pwm)) \div 1000 + min_pwm

\* _apply_haptic_brake returns True
BrakeActive(m) == m.haptic_brake_percent > 0

\* _apply_haptic_brake when it brakes
apply_haptic_brake(m) ==
    [ m EXCEPT !.in1 = 1, !.in2 = 1, !.duty = BrakeDuty(m.haptic_brake_percent) ]

\* the duty mapped into [0, max_pwm]: int(max_pwm * min(abs(rpm) / 150, 1.0))
DriveDutyFromZero(speed_rpm) ==
    LET v == Min(Abs(speed_rpm), 150 * VelUnit)
        q == v \div 1000
        r == v % 1000
    IN  (max_pwm * q + (max_pwm * r) \div 1000) \div ((150 * VelUnit) \div 1000)

\* int(min_pwm + (max_pwm - min_pwm) * min(abs(rpm) / 150, 1.0))
DriveDuty(speed_rpm) ==
    LET v == Min(Abs(speed_rpm), 150 * VelUnit)
        q == v \div 1000
        r == v % 1000
    IN  min_pwm + ((max_pwm - min_pwm) * q + ((max_pwm - min_pwm) * r) \div 1000)
                      \div ((150 * VelUnit) \div 1000)

MotorOff(m) == [ m EXCEPT !.duty = 0, !.in1 = 0, !.in2 = 0 ]

set_motor_speed(m, speed_rpm) ==
    LET m1 == [ m EXCEPT !.target_velocity = speed_rpm ]
    IN  IF BrakeActive(m1) THEN apply_haptic_brake(m1)
        ELSE IF 10 * Abs(speed_rpm) < VelUnit
        THEN [ MotorOff(m1) EXCEPT !.last_motion_sign = 0 ]
        ELSE IF speed_rpm > 0
        THEN [ m1 EXCEPT !.in1 = 1, !.in2 = 0, !.last_motion_sign = 1,
                         !.duty = DriveDuty(speed_rpm) ]
        ELSE [ m1 EXCEPT !.in1 = 0, !.in2 = 1, !.last_motion_sign = -1,
                         !.duty = DriveDuty(speed_rpm) ]

\* position_control without the anti-windup clamp
position_control_no_windup(m) ==
    LET error == m.target_position - get_position_degrees(m)
        integral == m.integral_error + error
        output == 100 * m.kp * error + m.ki * integral
                    + 10000 * m.kd * (error - m.last_position_error)
        velocity_command == Clamp(-50 * VelUnit, output, 50 * VelUnit)
    IN  set_motor_speed([ m EXCEPT !.integral_error = integral,
                                   !.last_position_error = error ],
                        velocity_command)

\* position_control passing the PID output on as it is
position_control_unclamped(m) ==
    LET error == m.target_position - get_position_degrees(m)
        integral == Clamp(-100 * 1600, m.integral_error + error, 100 * 1600)
        output == 100 * m.kp * error + m.ki * integral
                    + 10000 * m.kd * (error - m.last_position_error)
        velocity_command == output
    IN  set_motor_speed([ m EXCEPT !.integral_error = integral,
                                   !.last_position_error = error ],
                        velocity_command)

position_control(m) ==
    LET error == m.target_position - get_position_degrees(m)
        integral == Clamp(-100 * 1600, m.integral_error + error, 100 * 1600)
        output == 100 * m.kp * error + m.ki * integral
                    + 10000 * m.kd * (error - m.last_position_error)
        velocity_command == Clamp(-50 * VelUnit, output, 50 * VelUnit)
    IN  set_motor_speed([ m EXCEPT !.integral_error = integral,
                                   !.last_position_error = error ],
                        velocity_command)

velocity_control(m) == set_motor_speed(m, m.target_velocity)

\* stop_motor without its wall_engaged = False
stop_motor_keeps_wall(m) ==
    [ MotorOff(m) EXCEPT
        !.target_velocity = 0,
        !.last_motion_sign = 0,
        !.control_mode = "velocity" ]

\* stop_motor leaving the control mode as it was
stop_motor_keeps_mode(m) ==
    [ MotorOff(m) EXCEPT
        !.target_velocity = 0,
        !.last_motion_sign = 0,
        !.wall_engaged = FALSE ]

stop_motor(m) ==
    [ MotorOff(m) EXCEPT
        !.target_velocity = 0,
        !.last_motion_sign = 0,
        !.wall_engaged = FALSE,
        !.control_mode = "velocity" ]

\* hold_position_here leaving the wall as well
hold_position_here_releases(m) ==
    [ m EXCEPT
        !.target_position = get_position_degrees(m),
        !.integral_error = 0,
        !.last_position_error = 0,
        !.wall_engaged = FALSE,
        !.control_mode = "position" ]

hold_position_here(m) ==
    [ m EXCEPT
        !.target_position = get_position_degrees(m),
        !.integral_error = 0,
        !.last_position_error = 0,
        !.control_mode = "position" ]

\* zero_position leaving encoder_count as it was
zero_position_keeps_count(m) ==
    [ m EXCEPT !.integral_error = 0, !.last_position_error = 0 ]

zero_position(m) ==
    [ m EXCEPT !.encoder_count = 0, !.integral_error = 0,
               !.last_position_error = 0 ]

\* haptic_brake_percent = max(0.0, min(1.0, 1.0 - brake_percent))
set_haptic_feedback(m, brake_percent) ==
    [ m EXCEPT !.haptic_brake_percent = Clamp(0, 1000 - brake_percent, 1000) ]

set_force_feedback(m, force_newtons, motor_rpm) ==
    LET m1 == [ m EXCEPT !.target_velocity = motor_rpm ]
    IN  IF 10 * Abs(motor_rpm) < VelUnit THEN MotorOff(m1)
        ELSE [ m1 EXCEPT !.in1 = IF motor_rpm > 0 THEN 1 ELSE 0,
                         !.in2 = IF motor_rpm > 0 THEN 0 ELSE 1,
                         !.duty = DriveDuty(motor_rpm) ]

set_raw_driver(m, ena_duty, in1, in2) ==
    [ m EXCEPT !.duty = ena_duty, !.in1 = in1, !.in2 = in2,
               !.control_mode = "raw" ]

\* set_raw_driver when argument number `bad` is not a number: int() raises
\* there, after the pins before it were written
set_raw_driver_raises(m, ena_duty, in1, bad) ==
    CASE bad = 1 -> m
      [] bad = 2 -> [ m EXCEPT !.duty = ena_duty ]
      [] OTHER   -> [ m EXCEPT !.duty = ena_duty, !.in1 = in1 ]

set_pid_gains(m, kp, ki, kd) == [ m EXCEPT !.kp = kp, !.ki = ki, !.kd = kd ]

\* the requested force stored as it came
ClampForceNone(force_newtons) == force_newtons

\* max(0.0, min(force_newtons, 50.0)), in 1/100 N
ClampForce(force_newtons) == Clamp(0, force_newtons, 50 * 100)

\* set_spring_wall falling back to last_motion_sign at 0.5 RPM as well
set_spring_wall_above_half(m, force_newtons, wall_flag, dt_ms) ==
    LET force == ClampForce(force_newtons)
        hinted == Abs(wall_flag) > 1
        direction_hint == IF wall_flag < 0 THEN -1 ELSE 1
        active == force > 0 /\ wall_flag # 0
        m1 == [ m EXCEPT !.wall_force_newtons = force ]
    IN  IF ~active
        THEN [ MotorOff(m1) EXCEPT
                 !.wall_engaged = FALSE,
                 !.haptic_brake_percent = 0,
                 !.control_mode = "velocity" ]
        ELSE LET m2 ==
                   IF ~m1.wall_engaged
                   THEN LET mv == get_velocity_rpm(m1, dt_ms)
                            velocity_hint ==
                                IF 2 * Abs(mv.current_velocity) <= VelUnit
                                THEN mv.last_motion_sign
                                ELSE mv.current_velocity
                        IN  [ mv EXCEPT
                                !.wall_contact_position_deg = get_position_degrees(mv),
                                !.wall_direction =
                                    IF hinted THEN direction_hint
                                    ELSE IF velocity_hint >= 0 THEN 1 ELSE -1 ]
                   ELSE [ m1 EXCEPT
                            !.wall_direction = IF hinted THEN direction_hint ELSE @ ]
             IN  [ m2 EXCEPT
                     !.wall_engaged = TRUE,
                     !.control_mode = "virtual_wall",
                     !.haptic_brake_percent = 0 ]

\* set_spring_wall; dt_ms is the clock reading of its get_velocity_rpm call
\* set_spring_wall capturing the surface at every engage
set_spring_wall_recaptures(m, force_newtons, wall_flag, dt_ms) ==
    LET force == ClampForce(force_newtons)
        hinted == Abs(wall_flag) > 1
        direction_hint == IF wall_flag < 0 THEN -1 ELSE 1
        active == force > 0 /\ wall_flag # 0
        m1 == [ m EXCEPT !.wall_force_newtons = force ]
    IN  IF ~active
        THEN [ MotorOff(m1) EXCEPT
                 !.wall_engaged = FALSE,
                 !.haptic_brake_percent = 0,
                 !.control_mode = "velocity" ]
        ELSE LET mv == get_velocity_rpm(m1, dt_ms)
                 velocity_hint ==
                     IF 2 * Abs(mv.current_velocity) < VelUnit
                     THEN mv.last_motion_sign
                     ELSE mv.current_velocity
             IN  [ mv EXCEPT
                     !.wall_contact_position_deg = get_position_degrees(mv),
                     !.wall_direction =
                         IF hinted THEN direction_hint
                         ELSE IF velocity_hint >= 0 THEN 1 ELSE -1,
                     !.wall_engaged = TRUE,
                     !.control_mode = "virtual_wall",
                     !.haptic_brake_percent = 0 ]

set_spring_wall(m, force_newtons, wall_flag, dt_ms) ==
    LET force == ClampForce(force_newtons)
        hinted == Abs(wall_flag) > 1
        direction_hint == IF wall_flag < 0 THEN -1 ELSE 1
        active == force > 0 /\ wall_flag # 0
        m1 == [ m EXCEPT !.wall_force_newtons = force ]
    IN  IF ~active
        THEN [ MotorOff(m1) EXCEPT
                 !.wall_engaged = FALSE,
                 !.haptic_brake_percent = 0,
                 !.control_mode = "velocity" ]
        ELSE LET m2 ==
                   IF ~m1.wall_engaged
                   THEN LET mv == get_velocity_rpm(m1, dt_ms)
                            velocity_hint ==
                                IF 2 * Abs(mv.current_velocity) < VelUnit
                                THEN mv.last_motion_sign
                                ELSE mv.current_velocity
                        IN  [ mv EXCEPT
                                !.wall_contact_position_deg = get_position_degrees(mv),
                                !.wall_direction =
                                    IF hinted THEN direction_hint
                                    ELSE IF velocity_hint >= 0 THEN 1 ELSE -1 ]
                   ELSE [ m1 EXCEPT
                            !.wall_direction = IF hinted THEN direction_hint ELSE @ ]
             IN  [ m2 EXCEPT
                     !.wall_engaged = TRUE,
                     !.control_mode = "virtual_wall",
                     !.haptic_brake_percent = 0 ]

\* sin(2 pi 10 t) in 1/1000, t the ticks_ms reading modulo the 100 ms period
Sin10Hz(phase_ms) ==
    CASE phase_ms = 0  -> 0
      [] phase_ms = 25 -> 1000
      [] phase_ms = 50 -> 0
      [] phase_ms = 75 -> -1000

\* duty_cycle of virtual_wall_control in 1/1000: with rh = 0.05, k = 200,
\* gear_ratio = 30 and the 0.03 of the duty mapping,
\* duty_cycle^2 = penetration_deg * (pi / 324) * (1 + sin); pi is 22/7, so
\* 10^6 duty_cycle^2 = penetration * (1000 + sin) * 1375 / 2268
WallDutyCycle(penetration, phase_ms) ==
    Min(Isqrt((penetration * (1000 + Sin10Hz(phase_ms)) * 1375) \div 2268), 1000)

\* virtual_wall_control releasing the wall once the handle is back outside
virtual_wall_control_releases(m, phase_ms) ==
    IF ~m.wall_engaged THEN m
    ELSE LET penetration ==
                 (get_position_degrees(m) - m.wall_contact_position_deg)
                     * m.wall_direction
         IN  IF 4 * penetration < PosUnit
             THEN [ MotorOff(m) EXCEPT !.wall_engaged = FALSE ]
             ELSE [ m EXCEPT
                      !.in1 = IF m.wall_direction = -1 THEN 1 ELSE 0,
                      !.in2 = IF m.wall_direction = -1 THEN 0 ELSE 1,
                      !.duty = min_pwm + ((max_pwm - min_pwm)
                                  * WallDutyCycle(penetration, phase_ms)) \div 1000 ]

\* virtual_wall_control pushing along wall_direction
virtual_wall_control_inward(m, phase_ms) ==
    IF ~m.wall_engaged THEN m
    ELSE LET penetration ==
                 (get_position_degrees(m) - m.wall_contact_position_deg)
                     * m.wall_direction
         IN  IF 4 * penetration < PosUnit THEN MotorOff(m)
             ELSE [ m EXCEPT
                      !.in1 = IF m.wall_direction = 1 THEN 1 ELSE 0,
                      !.in2 = IF m.wall_direction = 1 THEN 0 ELSE 1,
                      !.duty = min_pwm + ((max_pwm - min_pwm)
                                  * WallDutyCycle(penetration, phase_ms)) \div 1000 ]

virtual_wall_control(m, phase_ms) ==
    IF ~m.wall_engaged THEN m
    ELSE LET penetration ==
                 (get_position_degrees(m) - m.wall_contact_position_deg)
                     * m.wall_direction
         IN  IF 4 * penetration < PosUnit THEN MotorOff(m)
             ELSE [ m EXCEPT
                      !.in1 = IF m.wall_direction = -1 THEN 1 ELSE 0,
                      !.in2 = IF m.wall_direction = -1 THEN 0 ELSE 1,
                      !.duty = min_pwm + ((max_pwm - min_pwm)
                                  * WallDutyCycle(penetration, phase_ms)) \div 1000 ]

----------------------------------------------------------------------------
(* Embedded controller: the command loops of pico_upload/main.py ("main")  *)
(* and of motor_control.main ("cli").  One iteration is command intake     *)
(* (ppc = "read") followed by the control step (ppc = "step").             *)

\* encoder counts the model follows the shaft over
MaxCount == 2
\* position_control calls in one run
MaxPidSteps == 1
\* lines received in one run
MaxLines == 3
PicoInit ==
    /\ motor = MotorInit
    /\ entry \in {"main", "cli"}
    /\ ppc = "read"
    /\ lastCmd = "none"
    /\ wasEngaged = FALSE
    /\ reply = "none"
    /\ idle = FALSE
    /\ pidSteps = 0
    /\ nLines = 0
    /\ reported = 0
    /\ zeroed = FALSE

\* f"{pos:.2f}": an angle in 1/PosUnit degree rounded to 1/100 degree, ties
\* to the even digit
Format2(pos) ==
    LET n == Abs(pos) * 25
        q == n \div 4
        r == n % 4
    IN  Sign(pos) * (IF r > 2 \/ (r = 2 /\ q % 2 = 1) THEN q + 1 ELSE q)

\* a line was received and handled
Handled(tag, m, answer, next) ==
    /\ ppc \in {"read", "blocked"}
    /\ nLines < MaxLines
    /\ nLines' = nLines + 1
    /\ motor' = m
    /\ lastCmd' = tag
    /\ wasEngaged' = motor.wall_engaged
    /\ reply' = answer
    /\ idle' = FALSE
    /\ ppc' = next
    /\ reported' = IF tag = "status" THEN Format2(get_position_degrees(motor'))
                   ELSE 0
    /\ zeroed' = (zeroed \/ tag = "zero")
    /\ UNCHANGED << entry, pidSteps, bridgeVars, callVars >>

\* an edge on either encoder pin: the interrupt handler runs
EncoderEdge(a_state, b_state) ==
    /\ ppc # "exit"
    /\ << a_state, b_state >> # << motor.last_a_state, motor.last_b_state >>
    /\ motor' = encoder_callback(motor, a_state, b_state)
    /\ Abs(motor'.encoder_count) <= MaxCount
    /\ zeroed' = FALSE
    /\ UNCHANGED << entry, ppc, lastCmd, wasEngaged, reply, idle, pidSteps,
                    nLines, reported, bridgeVars, callVars >>

\* select finds nothing to read
NoInput ==
    /\ ppc = "read"
    /\ ppc' = "step"
    /\ UNCHANGED << motor, entry, lastCmd, wasEngaged, reply, idle, pidSteps,
                    nLines, reported, zeroed, bridgeVars, callVars >>

\* select reports input but the line has no newline yet: readline (input()
\* in motor_control.main) waits for it
ReadBlocks ==
    /\ ppc = "read"
    /\ nLines < MaxLines
    /\ ppc' = "blocked"
    /\ UNCHANGED << motor, entry, lastCmd, wasEngaged, reply, idle, pidSteps,
                    nLines, reported, zeroed, bridgeVars, callVars >>

\* a line of white space only: both loops continue with the next iteration
CmdBlank == Handled("blank", motor, "none", "read")

CmdVel(rpm) ==
    Handled("vel",
            [ motor EXCEPT !.target_velocity = rpm, !.control_mode = "velocity" ],
            "ok", "step")

\* main.py resets the PID state; motor_control.main does not
CmdPos(deg) ==
    LET m1 == [ motor EXCEPT !.target_position = deg, !.control_mode = "position" ]
    IN  Handled("pos",
                IF entry = "main"
                THEN [ m1 EXCEPT !.integral_error = 0, !.last_position_error = 0 ]
                ELSE m1,
                "ok", "step")

CmdHold == Handled("hold", hold_position_here(motor), "ok", "step")

\* spring_wall <forceN> <flag>: main.py passes four arguments to
\* set_spring_wall(force_newtons, wall_flag), the TypeError reaches the
\* loop's except and is answered with ERROR; motor_control.main passes two
CmdSpringWall(force, flag, dt_ms) ==
    Handled(IF force > 0 /\ flag # 0 THEN "wall_on" ELSE "wall_off",
            IF entry = "main" THEN motor
            ELSE set_spring_wall(motor, force, flag, dt_ms),
            IF entry = "main" THEN "error" ELSE "ok",
            "step")

CmdStop == Handled("stop", stop_motor(motor), "ok", "step")

CmdStatus(dt_ms) == Handled("status", get_velocity_rpm(motor, dt_ms), "status", "step")

CmdZero == Handled("zero", zero_position(motor), "ok", "step")

\* haptic, force and raw are commands of main.py only
CmdHaptic(brake_percent) ==
    /\ entry = "main"
    /\ Handled("haptic", set_haptic_feedback(motor, brake_percent), "ok", "step")

CmdForce(force, rpm) ==
    /\ entry = "main"
    /\ Handled("force", set_force_feedback(motor, force, rpm), "ok", "step")

CmdRaw(ena_duty, in1, in2) ==
    /\ entry = "main"
    /\ Handled("raw", set_raw_driver(motor, ena_duty, in1, in2), "ok", "step")

\* raw with a non-numeric argument: the ValueError of set_raw_driver reaches
\* the loop's except
CmdRawBad(ena_duty, in1, bad) ==
    /\ entry = "main"
    /\ Handled("raw_bad", set_raw_driver_raises(motor, ena_duty, in1, bad),
               "error", "step")

\* vel, pos, haptic or force with a non-numeric argument: float() raises
\* before anything is assigned
CmdBadNumber == Handled("bad_number", motor, "error", "step")

\* spring_wall with fewer than two arguments: main.py answers ERROR and
\* continues with the next iteration
CmdSpringWallShort ==
    /\ entry = "main"
    /\ Handled("wall_short", motor, "error", "read")

\* pid is a command of motor_control.main only; main.py answers
\* ERROR: Unknown command
CmdPid(kp, ki, kd) ==
    Handled("pid",
            IF entry = "cli" THEN set_pid_gains(motor, kp, ki, kd) ELSE motor,
            IF entry = "cli" THEN "ok" ELSE "error",
            "step")

\* a line neither loop knows
CmdUnknown == Handled("unknown", motor, "error", "step")

\* quit leaves the loop of motor_control.main
CmdQuit ==
    /\ entry = "cli"
    /\ Handled("quit", stop_motor(motor), "ok", "exit")

\* the control step with the velocity step run in raw mode as well
ControlDueRawDrives(m, phase_ms) ==
    CASE m.control_mode = "position"     -> position_control(m)
      [] m.control_mode = "virtual_wall" -> virtual_wall_control(m, phase_ms)
      [] OTHER                           -> velocity_control(m)

\* the control step of the mode, when 10 ms have passed
ControlDue(m, phase_ms) ==
    CASE m.control_mode = "position"     -> position_control(m)
      [] m.control_mode = "velocity"     -> velocity_control(m)
      [] m.control_mode = "virtual_wall" -> virtual_wall_control(m, phase_ms)
      [] OTHER                           -> m

ControlStep(phase_ms) ==
    /\ ppc = "step"
    /\ motor.control_mode = "position" => pidSteps < MaxPidSteps
    /\ motor' = ControlDue(motor, phase_ms)
    /\ pidSteps' = IF motor.control_mode = "position" THEN pidSteps + 1 ELSE pidSteps
    /\ idle' = TRUE
    /\ ppc' = "read"
    /\ UNCHANGED << entry, lastCmd, wasEngaged, reply, nLines, reported, zeroed, bridgeVars, callVars >>

\* less than 10 ms since the last control step
ControlSkip ==
    /\ ppc = "step"
    /\ ppc' = "read"
    /\ UNCHANGED << motor, entry, lastCmd, wasEngaged, reply, idle, pidSteps,
                    nLines, reported, zeroed, bridgeVars, callVars >>

VelArgs == {30 * VelUnit, 0}
PosArgs == {45 * PosUnit}
WallForces == {20 * 100, 0, 60 * 100, -5 * 100}
WallFlags == {0, 1, -2}
HapticArgs == {500, 1000}
DtChoices == {5, 100}
Phases == {0, 25, 50, 75}

\* the clock phases that make a difference to the control step of the mode
ClockPhases == IF motor.control_mode = "virtual_wall" THEN Phases ELSE {0}

\* the times since the last velocity computation that make a difference to
\* spring_wall: only a first contact calls get_velocity_rpm
EngageClock ==
    IF entry = "cli" /\ ~motor.wall_engaged THEN DtChoices ELSE {5}

PicoNext ==
    \/ \E a \in 0..1 : EncoderEdge(a, motor.last_b_state)
    \/ NoInput
    \/ \E rpm \in VelArgs : CmdVel(rpm)
    \/ \E deg \in PosArgs : CmdPos(deg)
    \/ CmdHold
    \/ \E f \in WallForces, flag \in WallFlags, dt \in EngageClock :
           CmdSpringWall(f, flag, dt)
    \/ CmdStop
    \/ \E dt \in DtChoices : CmdStatus(dt)
    \/ CmdZero
    \/ \E bp \in HapticArgs : CmdHaptic(bp)
    \/ CmdForce(5 * 100, 20 * VelUnit)
    \/ CmdRaw(30000, 1, 0)
    \/ CmdPid(20, 20, 20)
    \/ CmdUnknown
    \/ \E bad \in 1..3 : CmdRawBad(30000, 1, bad)
    \/ CmdBadNumber
    \/ CmdSpringWallShort
    \/ CmdQuit
    \/ ReadBlocks
    \/ CmdBlank
    \/ \E ph \in ClockPhases : ControlStep(ph)
    \/ ControlSkip

----------------------------------------------------------------------------
(* MotorController driven method by method: any caller, any order of       *)
(* calls, the encoder interrupt arriving between them.                     *)

\* encoder counts the shaft turns away from its start, either way
MaxTurn == 2
\* method calls in one run
MaxCalls == 2

CallInit ==
    /\ called = "none"
    /\ nCalls = 0
    /\ ipc = "idle"
    /\ current_count = 0
    /\ edges = 0

\* penetration_deg of virtual_wall_control
Penetration(m) ==
    (get_position_degrees(m) - m.wall_contact_position_deg) * m.wall_direction

\* penetration_deg < wall_release_tol_deg (0.25 degree)
InDeadband(m) == 4 * Penetration(m) < PosUnit

\* the interrupt handler runs with the pin levels it reads
EncoderIrq(a_state, b_state) ==
    /\ motor' = encoder_callback(motor, a_state, b_state)
    /\ Abs(motor'.encoder_count) <= MaxTurn
    /\ UNCHANGED << entry, ppc, lastCmd, wasEngaged, reply, idle, pidSteps,
                    nLines, reported, zeroed, called, nCalls, ipc, current_count,
                    edges, bridgeVars >>

\* a method is called and returns
Call(method, m) ==
    /\ nCalls < MaxCalls
    /\ nCalls' = nCalls + 1
    /\ called' = method
    /\ motor' = m
    /\ UNCHANGED << entry, ppc, lastCmd, wasEngaged, reply, idle, pidSteps,
                    nLines, reported, zeroed, ipc, current_count, edges,
                    bridgeVars >>

CallGetVelocityRpm(dt_ms) ==
    Call("get_velocity_rpm", get_velocity_rpm(motor, dt_ms))

CallSetMotorSpeed(speed_rpm) ==
    Call("set_motor_speed", set_motor_speed(motor, speed_rpm))

CallPositionControl == Call("position_control", position_control(motor))

CallVelocityControl == Call("velocity_control", velocity_control(motor))

CallStopMotor == Call("stop_motor", stop_motor(motor))

CallHoldPositionHere ==
    Call("hold_position_here", hold_position_here(motor))

CallZeroPosition == Call("zero_position", zero_position(motor))

CallSetHapticFeedback(brake_percent) ==
    Call("set_haptic_feedback", set_haptic_feedback(motor, brake_percent))

CallSetForceFeedback(force_newtons, motor_rpm) ==
    Call("set_force_feedback",
         set_force_feedback(motor, force_newtons, motor_rpm))

CallSetRawDriver(ena_duty, in1, in2) ==
    Call("set_raw_driver", set_raw_driver(motor, ena_duty, in1, in2))

CallSetPidGains(kp, ki, kd) ==
    Call("set_pid_gains", set_pid_gains(motor, kp, ki, kd))

CallSetSpringWall(force_newtons, wall_flag, dt_ms) ==
    Call("set_spring_wall",
         set_spring_wall(motor, force_newtons, wall_flag, dt_ms))

\* ticks_ms() read by the call is phase_ms into the 100 ms vibration period
CallVirtualWallControl(phase_ms) ==
    Call("virtual_wall_control", virtual_wall_control(motor, phase_ms))

SpeedArgs == {2000, -(VelUnit \div 10), 30 * VelUnit, -200 * VelUnit}
EngageForces == {20 * 100, 0, -5 * 100}
EngageDts == {5, 125}

MotorNext ==
    \/ \E a \in 0..1, b \in 0..1 : EncoderIrq(a, b)
    \/ \E dt \in EngageDts : CallGetVelocityRpm(dt)
    \/ \E v \in SpeedArgs : CallSetMotorSpeed(v)
    \/ CallPositionControl
    \/ CallVelocityControl
    \/ CallStopMotor
    \/ CallHoldPositionHere
    \/ CallZeroPosition
    \/ \E bp \in HapticArgs : CallSetHapticFeedback(bp)
    \/ CallSetForceFeedback(5 * 100, 20 * VelUnit)
    \/ CallSetRawDriver(30000, 1, 0)
    \/ CallSetPidGains(20, 20, 20)
    \/ \E f \in EngageForces, flag \in WallFlags, dt \in EngageDts :
           CallSetSpringWall(f, flag, dt)
    \/ \E ph \in Phases : CallVirtualWallControl(ph)

----------------------------------------------------------------------------
(* Specifications *)

\* the bridge, its controller link answered by the environment
BridgeSpecInit == BridgeInit /\ PicoInit /\ entry = "main" /\ CallInit

BridgeSpec == BridgeSpecInit /\ [][BridgeNext]_vars

\* the embedded controller, commands arriving from its link
PicoSpecInit == BridgeInit /\ pico_serial = TRUE /\ PicoInit /\ CallInit

PicoSpec == PicoSpecInit /\ [][PicoNext]_vars

\* the MotorController object under any caller
MotorSpecInit == BridgeInit /\ PicoInit /\ entry = "cli" /\ CallInit

MotorSpec == MotorSpecInit /\ [][MotorNext]_vars

\* set_spring_wall on a controller that has run before: the velocity
\* computed last and the motion sign recorded last are what earlier calls
\* of get_velocity_rpm and set_motor_speed left
CachedVelocities == {0, VelUnit \div 2, -(VelUnit \div 2), -(VelUnit \div 4)}

EngageSpecInit ==
    /\ BridgeInit
    /\ \E v \in CachedVelocities, sign \in -1..1 :
          motor = [ MotorInit EXCEPT !.current_velocity = v,
                                     !.last_motion_sign = sign ]
    /\ entry = "cli"
    /\ ppc = "read"
    /\ lastCmd = "none"
    /\ wasEngaged = FALSE
    /\ reply = "none"
    /\ idle = FALSE
    /\ pidSteps = 0
    /\ nLines = 0
    /\ reported = 0
    /\ zeroed = FALSE
    /\ CallInit

EngageNext ==
    \/ \E a \in 0..1, b \in 0..1 : EncoderIrq(a, b)
    \/ \E f \in EngageForces, flag \in WallFlags, dt \in EngageDts :
           CallSetSpringWall(f, flag, dt)

EngageSpec == EngageSpecInit /\ [][EngageNext]_vars

\* position control on a controller that has run before: the integral is
\* what earlier position_control calls accumulated, the target what the last
\* pos command stored
Integrals == {0, 100 * 1600 - 100, -(100 * 1600 - 100)}
Targets == {0, 45 * PosUnit, -45 * PosUnit}

\* pos <degrees> as motor_control.main handles it
CallSetTarget(deg) ==
    Call("pos", [ motor EXCEPT !.target_position = deg,
                               !.control_mode = "position" ])

PidSpecInit ==
    /\ BridgeInit
    /\ \E integral \in Integrals, target \in Targets :
          motor = [ MotorInit EXCEPT !.integral_error = integral,
                                     !.target_position = target,
                                     !.control_mode = "position" ]
    /\ entry = "cli"
    /\ ppc = "read"
    /\ lastCmd = "none"
    /\ wasEngaged = FALSE
    /\ reply = "none"
    /\ idle = FALSE
    /\ pidSteps = 0
    /\ nLines = 0
    /\ reported = 0
    /\ zeroed = FALSE
    /\ CallInit

PidNext ==
    \/ \E a \in 0..1, b \in 0..1 : EncoderIrq(a, b)
    \/ CallPositionControl
    \/ \E deg \in Targets : CallSetTarget(deg)
    \/ CallZeroPosition
    \/ CallHoldPositionHere
    \/ CallSetPidGains(20, 20, 20)

PidSpec == PidSpecInit /\ [][PidNext]_vars

\* get_velocity_rpm from the point where current_count has been read: the
\* rest of the method works on that local value
get_velocity_rpm_rereads(m, count_read, dt_ms) ==
    IF dt_ms > 10
    THEN LET count_diff == count_read - m.last_count
         IN  [ m EXCEPT
                 !.current_velocity =
                     (count_diff * 60 * VelUnit) \div counts_per_output_rev,
                 !.last_motion_sign = IF count_diff # 0 THEN Sign(count_diff) ELSE @,
                 !.last_count = m.encoder_count ]
    ELSE m

get_velocity_rpm_from(m, count_read, dt_ms) ==
    IF dt_ms > 10
    THEN LET count_diff == count_read - m.last_count
         IN  [ m EXCEPT
                 !.current_velocity =
                     (count_diff * 60 * VelUnit) \div counts_per_output_rev,
                 !.last_motion_sign = IF count_diff # 0 THEN Sign(count_diff) ELSE @,
                 !.last_count = count_read ]
    ELSE m

\* the methods of the control loop that touch encoder_count, one attribute
\* access at a time, with the interrupt handler running to completion
\* between any two accesses
IsrUnchanged ==
    UNCHANGED << entry, ppc, lastCmd, wasEngaged, reply, idle, pidSteps,
                 nLines, reported, zeroed, bridgeVars >>

\* the handler; what an edge is worth is written out here a second time
IsrEdge(a_state, b_state) ==
    /\ motor' = encoder_callback(motor, a_state, b_state)
    /\ Abs(motor'.encoder_count) <= MaxTurn
    /\ edges' = edges + (IF a_state = motor.last_a_state THEN 0
                         ELSE IF a_state = b_state THEN 1 ELSE -1)
    /\ UNCHANGED << called, nCalls, ipc, current_count >>
    /\ IsrUnchanged

\* get_position_degrees (status, position_control, virtual_wall_control,
\* hold): one read of the count
PositionRead ==
    /\ ipc = "idle"
    /\ nCalls < MaxCalls
    /\ current_count' = motor.encoder_count
    /\ called' = "get_position_degrees"
    /\ nCalls' = nCalls + 1
    /\ UNCHANGED << motor, ipc, edges >>
    /\ IsrUnchanged

\* get_velocity_rpm: current_count = self.encoder_count
VelocityRead ==
    /\ ipc = "idle"
    /\ nCalls < MaxCalls
    /\ current_count' = motor.encoder_count
    /\ ipc' = "vel_read"
    /\ called' = "get_velocity_rpm"
    /\ UNCHANGED << motor, nCalls, edges >>
    /\ IsrUnchanged

\* get_velocity_rpm: the rest
VelocityFinish(dt_ms) ==
    /\ ipc = "vel_read"
    /\ motor' = get_velocity_rpm_from(motor, current_count, dt_ms)
    /\ ipc' = "idle"
    /\ nCalls' = nCalls + 1
    /\ UNCHANGED << called, current_count, edges >>
    /\ IsrUnchanged

\* zero_position: self.encoder_count = 0
ZeroStore ==
    /\ ipc = "idle"
    /\ nCalls < MaxCalls
    /\ motor' = [ motor EXCEPT !.encoder_count = 0 ]
    /\ edges' = 0
    /\ ipc' = "zero_stored"
    /\ called' = "zero_position"
    /\ UNCHANGED << nCalls, current_count >>
    /\ IsrUnchanged

\* zero_position: the two PID attributes
ZeroFinish ==
    /\ ipc = "zero_stored"
    /\ motor' = [ motor EXCEPT !.integral_error = 0, !.last_position_error = 0 ]
    /\ ipc' = "idle"
    /\ nCalls' = nCalls + 1
    /\ UNCHANGED << called, current_count, edges >>
    /\ IsrUnchanged

IsrNext ==
    \/ \E a \in 0..1, b \in 0..1 : IsrEdge(a, b)
    \/ PositionRead
    \/ VelocityRead
    \/ \E dt \in EngageDts : VelocityFinish(dt)
    \/ ZeroStore
    \/ ZeroFinish

IsrSpec == MotorSpecInit /\ [][IsrNext]_vars

\* time.ticks_us() counts modulo TICKS_PERIOD, and time.ticks_diff gives the
\* difference of two such readings in [-TICKS_PERIOD/2, TICKS_PERIOD/2)
TICKS_PERIOD == 1073741824

ticks_diff(elapsed_us) ==
    ((elapsed_us + TICKS_PERIOD \div 2) % TICKS_PERIOD) - TICKS_PERIOD \div 2

\* microseconds between the last recomputation and a call of get_velocity_rpm
Elapsed == {5000, 10000, 11000, 125000, 600000000}

\* get_velocity_rpm, elapsed_us after last_time was taken
CallGetVelocityAfter(elapsed_us) ==
    Call("get_velocity_rpm",
         get_velocity_rpm(motor, ticks_diff(elapsed_us) \div 1000))

VelocityNext ==
    \/ \E a \in 0..1, b \in 0..1 : EncoderIrq(a, b)
    \/ \E e \in Elapsed : CallGetVelocityAfter(e)
    \/ \E v \in SpeedArgs : CallSetMotorSpeed(v)

VelocitySpec == MotorSpecInit /\ [][VelocityNext]_vars

\* the bridge under the scheduling of its process: the loop keeps iterating
\* and time.time() keeps advancing
TimeAdvances ==
    \E d \in 1..MaxDelta :
        \/ \E incoming \in BOOLEAN : GuiAccept(d, incoming)
        \/ GuiIdle(d)
        \/ GuiLost(d)
        \/ \E batch \in Batches : GuiRecv(d, batch)

BridgeFairSpec ==
    /\ BridgeSpecInit
    /\ [][BridgeNext]_vars
    /\ SF_vars(TimeAdvances)
    /\ WF_vars(PicoQuiet \/ \E p \in Positions, f \in BOOLEAN : PicoUpdate(p, f))
    /\ WF_vars(\E f \in BOOLEAN, v \in Velocities : Timers(f, v))

\* the embedded loop under the scheduling of the Pico: the loop keeps
\* iterating and the 10 ms control period keeps elapsing
PicoFairSpec ==
    /\ PicoSpecInit
    /\ [][PicoNext]_vars
    /\ SF_vars(NoInput)
    /\ WF_vars(ControlSkip \/ \E ph \in Phases : ControlStep(ph))
    /\ SF_vars(\E ph \in Phases : ControlStep(ph))

----------------------------------------------------------------------------
(* Properties of the bridge *)

\* C1: every emergency_stop line the bridge receives sets emergency_stop and
\* writes `stop` to the controller link, wherever it sits in the lines of
\* one socket read
EveryEmergencyStopLatches ==
    [][\A d \in 0..MaxDelta, batch \in Batches :
          (GuiRecv(d, batch) /\ \E i \in DOMAIN batch : batch[i] = "estop")
              => /\ emergency_stop'
                 /\ pico_serial => \E i \in DOMAIN link' : link'[i] = "stop"]_vars

\* C2: once a client has been accepted, GUI silence for longer than
\* heartbeat_timeout leads to emergency_stop (unless traffic resumes or the
\* process is shut down first)
SilenceLeadsToEmergencyStop ==
    (everConnected /\ quietAge > heartbeat_timeout /\ bpc \notin {"shutdown", "done"})
        ~> (emergency_stop \/ quietAge <= heartbeat_timeout
              \/ bpc \in {"shutdown", "done"})

\* C3: more than max_consecutive_errors processing failures in a row put
\* the bridge in emergency stop by the end of the iteration
ErrorThresholdLatches ==
    (errRun > max_consecutive_errors /\ bpc \in {"gui", "shutdown", "done"})
        => emergency_stop

\* C4: a latch event has written exactly one `stop` by the time the process
\* has shut down
StopOncePerLatch ==
    (emergency_stop /\ bpc = "done") => stopsSinceLatch = 1

\* C5: emergency_stop, once true, stays true, and the loop never returns to
\* the top of an iteration
LatchHolds ==
    [][emergency_stop => (emergency_stop' /\ bpc' # "gui")]_vars

LatchedAndShutDown == emergency_stop /\ bpc = "done"

\* C6: every vel, pos or spring_wall written to the controller link was
\* written while emergency_stop was false; after the latch only stop and
\* status are written
NoDriveOnceLatched ==
    /\ \A i \in DOMAIN link :
          link[i] \in DriveCommands
              => /\ \A j \in 1..i : link[j] # "LATCH"
                 /\ emergency_stop => \E j \in DOMAIN link : link[j] = "LATCH"
    /\ \A i \in DOMAIN link, j \in DOMAIN link :
          (j < i /\ link[j] = "LATCH") => link[i] \in {"stop", "status"}

WrittenAfterLatch ==
    /\ emergency_stop
    /\ \E i \in DOMAIN link, j \in DOMAIN link :
          j < i /\ link[j] = "LATCH" /\ link[i] = "status"

----------------------------------------------------------------------------
(* Properties of the embedded controller *)

Off(m) == m.duty = 0 /\ m.in1 = 0 /\ m.in2 = 0

\* the H-bridge is powered in one direction
Driving(m) == m.duty > 0 /\ m.in1 # m.in2

\* C7: when no line and no part of a line arrives on the link after a vel
\* command, the embedded loop ends up no longer driving the motor, for good
SilentLinkStopsDrive ==
    <>[](idle /\ lastCmd = "vel" /\ ppc # "blocked") => <>[]~Driving(motor)

\* C8: right after the stop command (stop_motor) the duty is 0, both
\* direction outputs are low, target_velocity is 0, the wall is released and
\* the mode is velocity
StopLeavesSafeState ==
    (lastCmd = "stop" /\ ppc = "step" /\ ~idle)
        => /\ Off(motor)
           /\ motor.target_velocity = 0
           /\ ~motor.wall_engaged
           /\ motor.control_mode = "velocity"

StoppedAnEngagedWall == lastCmd = "stop" /\ ppc = "step" /\ ~idle /\ wasEngaged

\* C9: from the stop command until the next line, on every control step, the
\* duty is 0 and both direction outputs are low
StopStaysOff == lastCmd = "stop" => Off(motor)

\* C10: from the release of an engaged wall until the next line, on every
\* control step, the wall is released, the duty is 0 and both direction
\* outputs are low
ReleaseStaysOff ==
    (lastCmd = "wall_off" /\ wasEngaged) => (~motor.wall_engaged /\ Off(motor))

----------------------------------------------------------------------------
(* Properties of the embedded command interpreter *)

\* C11: the interpreter of main.py answers spring_wall <forceN> <flag> with
\* OK; with force > 0 and flag # 0 the wall is then engaged in virtual_wall
\* mode, with force 0 or flag 0 it is released
SpringWallAccepted ==
    (entry = "main" /\ lastCmd \in {"wall_on", "wall_off"} /\ ppc = "step" /\ ~idle)
        => /\ reply = "ok"
           /\ lastCmd = "wall_on" =>
                 (motor.wall_engaged /\ motor.control_mode = "virtual_wall")
           /\ lastCmd = "wall_off" => ~motor.wall_engaged

\* C12: the stored wall_force_newtons always lies in [0, 50] N, whatever
\* force was requested
WallForceInRange ==
    motor.wall_force_newtons >= 0 /\ motor.wall_force_newtons <= 50 * 100

ForceWasClamped ==
    lastCmd = "wall_on" /\ ppc = "step" /\ ~idle /\ motor.wall_force_newtons = 50 * 100

\* C13: right after a pos command, on either command loop, the PID
\* integral_error and last_position_error are both 0
PosResetsPid ==
    (lastCmd = "pos" /\ ppc = "step" /\ ~idle)
        => (motor.integral_error = 0 /\ motor.last_position_error = 0)

\* C14: a status that follows zero with no encoder edge in between reports
\* 0.00 degrees; right after zero the PID integral and last error are 0 and
\* so is encoder_count
ZeroThenStatus ==
    /\ (lastCmd = "status" /\ zeroed) => reported = 0
    /\ (lastCmd = "zero" /\ ppc = "step" /\ ~idle)
          => /\ motor.integral_error = 0
             /\ motor.last_position_error = 0
             /\ zeroed => motor.encoder_count = 0

StatusAfterZero == lastCmd = "status" /\ zeroed /\ reply = "status" /\ reported = 0

\* C15: the interpreter of main.py answers pid <kp> <ki> <kd> with a success
\* reply and the three gains are stored
PidAccepted ==
    (entry = "main" /\ lastCmd = "pid" /\ ppc = "step" /\ ~idle)
        => (reply = "ok" /\ motor.kp = 20 /\ motor.ki = 20 /\ motor.kd = 20)

\* C16: a line answered with an error leaves the controller (mode, targets,
\* wall state, duty and direction lines) as it was and does not end the loop
RejectedLeavesState ==
    [][(nLines' # nLines /\ reply' = "error")
          => (motor' = motor /\ ppc' # "exit")]_vars

----------------------------------------------------------------------------
(* Properties of the bridge's GUI channel *)

\* the lines that are commands of the GUI protocol: a structured message of
\* a recognised type, or the FORCE shorthand
CommandLines == {"estop", "fwd", "pos", "speed_bad", "FORCE_ok"}

RECURSIVE LastCommandOf(_, _)
LastCommandOf(batch, last) ==
    IF batch = << >> THEN last
    ELSE LastCommandOf(Tail(batch),
                       IF Head(batch) \in CommandLines THEN ParseLine(Head(batch))
                       ELSE last)

\* C17: the command applied in an iteration is the last valid line of the
\* bytes read in it, whatever invalid lines come after that line (and none
\* is applied when the read holds no valid line)
LastValidApplied ==
    [][\A d \in 0..MaxDelta, batch \in Batches :
          GuiRecv(d, batch) => appliedCmd' = LastCommandOf(batch, NoCmd)]_vars

\* C18: a connection that has arrived while a client is connected is the
\* bridge's current client after the next read step
NewConnectionReplaces ==
    [][(bpc = "gui" /\ bpc' = "pico" /\ backlog # 0 /\ client_socket # 0
          /\ client_socket' # 0)
          => client_socket' = backlog]_vars

\* a step in which the GUI transport fails: the client closes or recv raises
\* (GuiLost), or a status push cannot be sent
TransportFault ==
    \/ \E d \in 0..MaxDelta : GuiLost(d)
    \/ client_socket # 0 /\ \E p \in Positions : PicoUpdate(p, TRUE)
    \/ client_socket # 0 /\ statusAge > 0 /\ \E v \in Velocities : Timers(TRUE, v)

\* the heartbeat test of the iteration fires
HeartbeatDue ==
    hbAge > heartbeat_check_interval /\ gui_connected /\ guiAge > heartbeat_timeout

\* C19: a GUI transport fault clears the client handle; in that step stop is
\* written or emergency_stop set only if the heartbeat timeout fires
FaultOnlyDrops ==
    [][(client_socket # 0 /\ TransportFault)
          => /\ client_socket' = 0
             /\ (emergency_stop' # emergency_stop \/ StopsIn(link') > StopsIn(link))
                   => HeartbeatDue]_vars

ReconnectAfterFault ==
    /\ everConnected /\ client_socket = 0 /\ backlog # 0
    /\ ~emergency_stop /\ bpc = "gui" /\ StopsIn(link) = 0

\* C20: a safety check made while the drive turns faster than max_velocity
\* writes stop to the controller link, and sets emergency_stop only if the
\* heartbeat timeout fires in the same iteration
OverspeedReissuesStop ==
    [][\A f \in BOOLEAN, v \in Velocities :
          (Timers(f, v) /\ safetyAge > 0 /\ v > max_velocity /\ pico_serial)
              => /\ StopsIn(link') > StopsIn(link)
                 /\ emergency_stop' # emergency_stop => HeartbeatDue]_vars

----------------------------------------------------------------------------
(* Properties of MotorController *)

\* C21: a callback in which channel A differs from the A level recorded last
\* moves encoder_count by exactly one, up when the new A level equals the B
\* level and down otherwise; a callback in which A has not changed (an edge
\* of B alone) leaves encoder_count as it was
EncoderCountsEdgesOfA ==
    [][nCalls' = nCalls =>
          \A a \in 0..1, b \in 0..1 :
             (a = motor'.last_a_state /\ b = motor'.last_b_state) =>
                 \/ motor'.encoder_count - motor.encoder_count =
                        (IF a = motor.last_a_state THEN 0
                         ELSE IF a = b THEN 1 ELSE -1)
                 \/ ~EncoderIrq(a, b)]_vars

\* the count has gone up twice and channel B has changed level on the way
EncoderHasCounted ==
    /\ nCalls = 0
    /\ motor.encoder_count = MaxTurn
    /\ motor.last_b_state # MotorInit.last_b_state

\* the shaft k encoder counts further into the wall
Deeper(m, k) == [ m EXCEPT !.encoder_count = @ + k * m.wall_direction ]

\* C22: with the wall engaged, a control tick inside the 0.25 degree deadband
\* writes duty 0, a tick beyond it writes a duty above 0, and at the same
\* sample time a deeper penetration would have been given a strictly larger
\* duty
WallDutyGrowsWithDepth ==
    [][\A ph \in Phases :
          (CallVirtualWallControl(ph) /\ motor.wall_engaged) =>
              /\ InDeadband(motor) => motor'.duty = 0
              /\ ~InDeadband(motor) =>
                    /\ motor'.duty > 0
                    /\ \A k \in 1..MaxTurn :
                          virtual_wall_control(Deeper(motor, k), ph).duty
                              > motor'.duty]_vars

\* C23: set_spring_wall with a clamped force above 0 and a flag other than 0
\* leaves the wall Engaged (wall_engaged, mode virtual_wall); set_spring_wall
\* with any other arguments, and stop_motor, leave it Released (not
\* wall_engaged, mode velocity); a step that changes wall_engaged is a call
\* of one of the two
WallStateMachine ==
    [][/\ (nCalls' # nCalls /\ called' = "set_spring_wall") =>
             \A f \in EngageForces, flag \in WallFlags, dt \in EngageDts :
                \/ IF ClampForce(f) > 0 /\ flag # 0
                   THEN /\ motor'.wall_engaged
                        /\ motor'.control_mode = "virtual_wall"
                   ELSE /\ ~motor'.wall_engaged
                        /\ motor'.control_mode = "velocity"
                \/ ~CallSetSpringWall(f, flag, dt)
       /\ (nCalls' # nCalls /\ called' = "stop_motor" /\ CallStopMotor) =>
             ~motor'.wall_engaged /\ motor'.control_mode = "velocity"
       /\ motor'.wall_engaged # motor.wall_engaged =>
             /\ nCalls' = nCalls + 1
             /\ called' \in {"set_spring_wall", "stop_motor"}]_vars

\* stop_motor has released a wall that set_spring_wall had engaged
StopReleasedTheWall ==
    /\ called = "stop_motor"
    /\ motor.wall_force_newtons > 0
    /\ ~motor.wall_engaged

----------------------------------------------------------------------------
(* Properties of the embedded loop: the wall *)

\* C24: an accepted engage command that arrives while the wall is not being
\* rendered (the control mode is not virtual_wall: after a release, a stop,
\* or vel, pos, hold or raw) leaves wall_contact_position_deg at the encoder
\* position of that moment
EngageCapturesPosition ==
    [][(/\ nLines' = nLines + 1
        /\ lastCmd' = "wall_on"
        /\ reply' = "ok"
        /\ motor.control_mode # "virtual_wall")
          => motor'.wall_contact_position_deg = get_position_degrees(motor')]_vars

----------------------------------------------------------------------------
(* Properties of MotorController: the direction of the wall *)

\* the direction by priority: the hint, else the velocity when its magnitude
\* exceeds 0.5 RPM, else the motion sign, else +1
DirectionAboveHalf(wall_flag, velocity, motion_sign) ==
    IF Abs(wall_flag) > 1 THEN Sign(wall_flag)
    ELSE IF 2 * Abs(velocity) > VelUnit THEN Sign(velocity)
    ELSE IF motion_sign # 0 THEN motion_sign
    ELSE 1

\* the same with the velocity used from 0.5 RPM on
DirectionFromHalf(wall_flag, velocity, motion_sign) ==
    IF Abs(wall_flag) > 1 THEN Sign(wall_flag)
    ELSE IF 2 * Abs(velocity) >= VelUnit THEN Sign(velocity)
    ELSE IF motion_sign # 0 THEN motion_sign
    ELSE 1

\* C25 as stated: on entering Engaged wall_direction is the sign of the flag
\* when its magnitude exceeds 1, else the sign of the velocity returned by
\* get_velocity_rpm when its magnitude exceeds 0.5 RPM, else the motion
\* sign recorded last, else +1; it is +1 or -1
DirectionByPriority ==
    [][\A f \in EngageForces, flag \in WallFlags, dt \in EngageDts :
          (CallSetSpringWall(f, flag, dt) /\ ~motor.wall_engaged
              /\ motor'.wall_engaged) =>
              /\ motor'.wall_direction \in {1, -1}
              /\ motor'.wall_direction =
                     DirectionAboveHalf(flag, motor'.current_velocity,
                                        motor'.last_motion_sign)]_vars

\* C25 amended: the same priority with the velocity deciding when its
\* magnitude is at least 0.5 RPM
DirectionByPriorityFromHalf ==
    [][\A f \in EngageForces, flag \in WallFlags, dt \in EngageDts :
          (CallSetSpringWall(f, flag, dt) /\ ~motor.wall_engaged
              /\ motor'.wall_engaged) =>
              /\ motor'.wall_direction \in {1, -1}
              /\ motor'.wall_direction =
                     DirectionFromHalf(flag, motor'.current_velocity,
                                       motor'.last_motion_sign)]_vars

\* the wall was engaged at exactly 0.5 RPM against the motion sign recorded
\* last, and the velocity decided
EngagedAtHalfRpm ==
    /\ called = "set_spring_wall"
    /\ nCalls = 1
    /\ motor.wall_engaged
    /\ 2 * motor.current_velocity = VelUnit
    /\ motor.last_motion_sign = -1
    /\ motor.wall_direction = 1

----------------------------------------------------------------------------
(* Properties of MotorController: the control tick of the wall *)

\* C26: a virtual-wall control tick with the penetration below 0.25 degree
\* writes duty 0 and both direction lines low, and leaves wall_engaged true,
\* the mode virtual_wall, and the contact angle and wall_direction as they
\* were
DeadbandTickFreesMotor ==
    [][\A ph \in Phases :
          (/\ called' = "virtual_wall_control"
           /\ motor.control_mode = "virtual_wall"
           /\ motor.wall_engaged
           /\ 4 * Penetration(motor) < PosUnit
           /\ CallVirtualWallControl(ph)) =>
              /\ motor'.duty = 0 /\ motor'.in1 = 0 /\ motor'.in2 = 0
              /\ motor'.wall_engaged
              /\ motor'.control_mode = "virtual_wall"
              /\ motor'.wall_contact_position_deg = motor.wall_contact_position_deg
              /\ motor'.wall_direction = motor.wall_direction]_vars

\* a tick has run with the handle one count inside the wall surface, within
\* the deadband
TickedInDeadband ==
    /\ called = "virtual_wall_control"
    /\ motor.control_mode = "virtual_wall"
    /\ motor.wall_engaged
    /\ Penetration(motor) = CountUnits
    /\ motor.duty = 0

\* C27: a virtual-wall control tick with the penetration at or beyond the
\* deadband sets the direction lines against wall_direction: IN1 = 0,
\* IN2 = 1 for wall_direction +1 and IN1 = 1, IN2 = 0 for wall_direction
\* -1, the lines set_motor_speed sets for a speed of the opposite sign
WallPushesOut ==
    [][\A ph \in Phases :
          (/\ called' = "virtual_wall_control"
           /\ motor.control_mode = "virtual_wall"
           /\ motor.wall_engaged
           /\ 4 * Penetration(motor) >= PosUnit
           /\ CallVirtualWallControl(ph)) =>
              /\ motor.wall_direction \in {1, -1}
              /\ motor.wall_direction = 1 => motor'.in1 = 0 /\ motor'.in2 = 1
              /\ motor.wall_direction = -1 => motor'.in1 = 1 /\ motor'.in2 = 0
              /\ LET driven ==
                         set_motor_speed(
                             [ motor EXCEPT !.haptic_brake_percent = 0 ],
                             -motor.wall_direction * 30 * VelUnit)
                 IN  motor'.in1 = driven.in1 /\ motor'.in2 = driven.in2]_vars

\* a tick has driven the motor in the positive direction out of a wall that
\* lies in the negative direction
PushedOutPositive ==
    /\ called = "virtual_wall_control"
    /\ motor.wall_engaged
    /\ motor.wall_direction = -1
    /\ motor.encoder_count < 0
    /\ motor.duty >= min_pwm
    /\ motor.in1 = 1
    /\ motor.in2 = 0

----------------------------------------------------------------------------
(* Properties of MotorController: the drive outputs *)

\* C28: with no haptic brake active set_motor_speed(v) writes duty 0 and
\* both direction lines low when |v| < 0.1, and otherwise the direction
\* lines of the sign of v and the duty
\* min_pwm + (max_pwm - min_pwm) * min(|v| / 150, 1) cut to an integer,
\* which lies in [min_pwm, max_pwm]
SpeedMapsToDuty ==
    [][\A v \in SpeedArgs :
          (/\ called' = "set_motor_speed"
           /\ motor.haptic_brake_percent <= 0
           /\ CallSetMotorSpeed(v)) =>
              IF 10 * Abs(v) < VelUnit
              THEN motor'.duty = 0 /\ motor'.in1 = 0 /\ motor'.in2 = 0
              ELSE /\ motor'.in1 = (IF v > 0 THEN 1 ELSE 0)
                   /\ motor'.in2 = (IF v > 0 THEN 0 ELSE 1)
                   /\ motor'.duty >= min_pwm
                   /\ motor'.duty <= max_pwm
                   /\ LET part == Min(Abs(v), 150 * VelUnit) \div 200
                          whole == (150 * VelUnit) \div 200
                          above == motor'.duty - min_pwm
                      IN  /\ v % 200 = 0
                          /\ whole * above <= (max_pwm - min_pwm) * part
                          /\ (max_pwm - min_pwm) * part < whole * (above + 1)]_vars

\* set_motor_speed has driven in reverse at the full duty
DroveReverseAtFullDuty ==
    /\ called = "set_motor_speed"
    /\ motor.haptic_brake_percent = 0
    /\ motor.target_velocity < -150 * VelUnit
    /\ motor.duty = max_pwm
    /\ motor.in1 = 0
    /\ motor.in2 = 1

\* C29: with the haptic brake level above zero, every drive operation and
\* control tick (set_motor_speed, velocity_control, position_control, the
\* virtual-wall tick, set_force_feedback) leaves both direction lines high
BrakeOverridesDrive ==
    [][(/\ motor.haptic_brake_percent > 0
        /\ \/ \E v \in SpeedArgs : CallSetMotorSpeed(v)
           \/ CallVelocityControl
           \/ CallPositionControl
           \/ /\ motor.control_mode = "virtual_wall"
              /\ \E ph \in Phases : CallVirtualWallControl(ph)
           \/ CallSetForceFeedback(5 * 100, 20 * VelUnit))
          => motor'.in1 = 1 /\ motor'.in2 = 1]_vars

\* C30: while the haptic brake shorts the motor the duty is at most
\* min_pwm + max_brake_scale * (max_pwm - min_pwm)
BrakeDutyCapped ==
    (motor.haptic_brake_percent > 0 /\ motor.in1 = 1 /\ motor.in2 = 1)
        => 1000 * (motor.duty - min_pwm) <= max_brake_scale * (max_pwm - min_pwm)

----------------------------------------------------------------------------
(* Properties of the embedded loop: the control tick *)

\* C31: a control tick runs the one step of the current mode:
\* position_control in position mode, set_motor_speed with the stored target
\* in velocity mode, virtual_wall_control in virtual_wall mode, and nothing
\* in raw mode, where the outputs stay as `raw` set them
TickRunsStepOfMode ==
    [][(ppc = "step" /\ idle') =>
          \A ph \in ClockPhases :
             ControlStep(ph) =>
                 CASE motor.control_mode = "position" ->
                          motor' = position_control(motor)
                   [] motor.control_mode = "velocity" ->
                          motor' = set_motor_speed(motor, motor.target_velocity)
                   [] motor.control_mode = "virtual_wall" ->
                          motor' = virtual_wall_control(motor, ph)
                   [] OTHER ->
                          /\ motor.control_mode = "raw"
                          /\ motor' = motor]_vars

\* a tick has passed in raw mode and the outputs are those of the raw command
RawOutputsSurvivedTick ==
    /\ lastCmd = "raw"
    /\ idle
    /\ motor.control_mode = "raw"
    /\ motor.duty = 30000
    /\ motor.in1 = 1
    /\ motor.in2 = 0

\* C32: whatever arrives on the command link, a loop iteration that takes a
\* line from it goes on to the control tick of that iteration (or leaves the
\* loop on quit), so that a tick that is due is run
IntakeReachesTick ==
    [][nLines' = nLines + 1 => ppc' \in {"step", "exit"}]_vars

----------------------------------------------------------------------------
(* Properties of MotorController: position control *)

\* C33: in every reachable state integral_error lies in [-100, 100]
IntegralBounded ==
    /\ motor.integral_error >= -100 * 1600
    /\ motor.integral_error <= 100 * 1600

\* a position_control step has run the integral into its upper limit
IntegralAtLimit ==
    /\ called = "position_control"
    /\ motor.last_position_error > 0
    /\ motor.integral_error = 100 * 1600

\* C34: the velocity a position_control step passes to set_motor_speed
\* (kept as target_velocity) lies in [-50, 50] RPM
PositionStepSpeedBounded ==
    [][CallPositionControl =>
          /\ motor'.target_velocity >= -50 * VelUnit
          /\ motor'.target_velocity <= 50 * VelUnit]_vars

\* a position_control step has commanded the full -50 RPM
CommandedFullReverse ==
    /\ called = "position_control"
    /\ motor.last_position_error < 0
    /\ motor.target_velocity = -50 * VelUnit
    /\ motor.in1 = 0
    /\ motor.in2 = 1

----------------------------------------------------------------------------
(* Properties of MotorController: the encoder handler against the loop *)

\* C35: with the handler running between any two attribute accesses of the
\* control loop, encoder_count is the net number of edges counted since the
\* last zero, a read of the count returns that number as it stands at the
\* read, and get_velocity_rpm records as last_count the very count its
\* velocity was computed from, so that no edge falls between two velocity
\* windows
HandlerInterleavesSafely ==
    [][/\ motor'.encoder_count = edges'
       /\ (PositionRead \/ VelocityRead) => current_count' = edges
       /\ (\E dt \in EngageDts : VelocityFinish(dt) /\ dt > 10) =>
             motor'.last_count = current_count]_vars

\* an edge has arrived between the read of get_velocity_rpm and its end
EdgeDuringVelocity ==
    /\ called = "get_velocity_rpm"
    /\ ipc = "idle"
    /\ nCalls = 1
    /\ motor.last_count # motor.encoder_count
    /\ motor.last_count = current_count
    /\ motor.current_velocity # 0

\* C36: a get_velocity_rpm call made 10 ms or less after the last
\* recomputation changes nothing and returns the cached velocity; a call made
\* later recomputes the velocity from the count difference, records the
\* count, and sets last_motion_sign to the sign of the difference only when
\* it is nonzero
VelocityRecomputedAfterTenMs ==
    [][\A e \in Elapsed :
          CallGetVelocityAfter(e) =>
              LET count_diff == motor.encoder_count - motor.last_count
              IN  IF e <= 10000
                  THEN motor' = motor
                  ELSE /\ motor'.current_velocity * counts_per_output_rev =
                              count_diff * 60 * VelUnit
                       /\ motor'.last_count = motor.encoder_count
                       /\ motor'.last_motion_sign =
                              IF count_diff # 0 THEN Sign(count_diff)
                              ELSE motor.last_motion_sign]_vars

----------------------------------------------------------------------------
(* Properties of the embedded controller: wall state against control mode *)

\* C37: in every reachable state of the embedded controller an engaged wall
\* means the control mode is virtual_wall
EngagedMeansWallMode ==
    motor.wall_engaged => motor.control_mode = "virtual_wall"

\* C38: in every reachable state of the embedded controller the control mode
\* virtual_wall means the wall is engaged, so that no virtual-wall control
\* step runs on a disengaged wall
WallModeMeansEngaged ==
    motor.control_mode = "virtual_wall" => motor.wall_engaged

\* a virtual-wall control step has run after the wall was engaged
WallStepRan ==
    /\ lastCmd = "wall_on"
    /\ idle
    /\ motor.control_mode = "virtual_wall"
    /\ motor.wall_engaged
    /\ motor.duty > 0

\* C39: an engage command that finds the wall already engaged leaves
\* wall_contact_position_deg as it was, stores the clamped force of the
\* command, and changes wall_direction only when the flag has a magnitude
\* above 1, to the sign of the flag
ReEngageKeepsSurface ==
    [][(motor.wall_engaged /\ nLines' # nLines /\ lastCmd' = "wall_on") =>
          \A f \in WallForces, flag \in WallFlags, dt \in DtChoices :
             (f > 0 /\ flag # 0 /\ CmdSpringWall(f, flag, dt)) =>
                 /\ motor'.wall_contact_position_deg =
                        motor.wall_contact_position_deg
                 /\ motor'.wall_force_newtons = ClampForce(f)
                 /\ motor'.wall_direction =
                        IF Abs(flag) > 1 THEN (IF flag < 0 THEN -1 ELSE 1)
                        ELSE motor.wall_direction
                 /\ motor'.wall_engaged]_vars

\* a second engage, with another force and a direction hint, has arrived
\* after the handle moved away from the captured surface
ReEngagedAwayFromSurface ==
    /\ lastCmd = "wall_on"
    /\ wasEngaged
    /\ ppc = "step"
    /\ motor.wall_force_newtons = 50 * 100
    /\ motor.wall_direction = -1
    /\ motor.wall_contact_position_deg = 0
    /\ get_position_degrees(motor) # 0

====
